---- MODULE Spec2Model ----
(***************************************************************************)
(* Model of the option-resolution layer (options.Merge and its callers)    *)
(* and of the pagination cursor (cursor.Cursor) of astra-db-go.            *)
(*                                                                         *)
(* Go pointers and optional values are modelled as sequences of length at  *)
(* most one: Nil is the nil pointer, Ptr(v) a pointer to v.                *)
(***************************************************************************)
EXTENDS Integers, Sequences, FiniteSets, TLC

Nil == << >>
Ptr(v) == << v >>
Deref(p) == p[1]

(***************************************************************************)
(* Bounds                                                                  *)
(***************************************************************************)
\* number of With* option setters applied while the handles are constructed
MaxOpts == 2
\* longest page chain a fetcher serves
MaxPages == 3
\* most documents a page chain holds in all
MaxDocs == 3
\* the fetcher may fail on its first MaxFailCalls invocations only
MaxFailCalls == 2
\* most HTTP requests a command hands to its HTTP client
MaxRequests == 2
\* number of threads that share one cursor
MaxThreads == 2

(***************************************************************************)
(* options/api_options.go                                                  *)
(***************************************************************************)
\* the option layers of the handle hierarchy, in resolution order
ClientLayer == 1
DbLayer == 2
ResourceLayer == 3
CommandLayer == 4
AdminLayer == 5
Layers == {ClientLayer, DbLayer, ResourceLayer, CommandLayer, AdminLayer}

\* the value layer l gives to a string-like option; durations in seconds
StrVal(l) == <<"set-by", l>>
DurVal(l) == l
HeaderKeys == {"a", "b"}

DefaultAPIVersion == "v1"
DefaultKeyspace == "default_keyspace"
DefaultHTTPClient == "http.Client{}"
DefaultRequestTimeout == 30

ScalarFields == {"Token", "Keyspace", "APIVersion", "HTTPClient", "WarningHandler"}
TimeoutFields == {"Request", "Connection", "BulkOperation"}

EmptyMap == [k \in {} |-> Nil]
EmptyTimeout == [Request |-> Nil, Connection |-> Nil, BulkOperation |-> Nil]

\* type APIOptions struct: the zero value, every field nil
ZeroAPIOptions ==
    [Token |-> Nil, Keyspace |-> Nil, APIVersion |-> Nil, HTTPClient |-> Nil,
     Headers |-> Nil, Timeout |-> Nil, Serdes |-> Nil, WarningHandler |-> Nil]

\* DefaultAPIOptions()
DefaultAPIOptions ==
    [ZeroAPIOptions EXCEPT
        !.APIVersion = Ptr(DefaultAPIVersion),
        !.Keyspace = Ptr(DefaultKeyspace),
        !.HTTPClient = Ptr(DefaultHTTPClient),
        !.Headers = Ptr(EmptyMap),
        !.Timeout = Ptr([EmptyTimeout EXCEPT !.Request = Ptr(DefaultRequestTimeout)])]

\* NewAPIOptions() before any option is applied: only the header map is made
NewAPIOptions == [ZeroAPIOptions EXCEPT !.Headers = Ptr(EmptyMap)]

\* m[k] = v on a Go map
MapPut(m, k, v) == [x \in (DOMAIN m) \cup {k} |-> IF x = k THEN v ELSE m[x]]

\* a copy loop that keeps the value a key already has
MapCopyIntoKeepsOld(dst, src) ==
    [x \in (DOMAIN dst) \cup (DOMAIN src) |-> IF x \in DOMAIN dst THEN dst[x] ELSE src[x]]

\* for k, v := range src { dst[k] = v }
MapCopyInto(dst, src) ==
    [x \in (DOMAIN dst) \cup (DOMAIN src) |-> IF x \in DOMAIN src THEN src[x] ELSE dst[x]]

\* the With* setters of a scalar option
WithScalar(o, f, v) == [o EXCEPT ![f] = Ptr(v)]

\* WithHeader(key, value)
WithHeader(o, k, v) ==
    LET m == IF o.Headers = Nil THEN EmptyMap ELSE Deref(o.Headers)
    IN  [o EXCEPT !.Headers = Ptr(MapPut(m, k, v))]

\* WithRequestTimeout / WithConnectionTimeout / WithBulkOperationTimeout
WithTimeoutField(o, f, d) ==
    LET t == IF o.Timeout = Nil THEN EmptyTimeout ELSE Deref(o.Timeout)
    IN  [o EXCEPT !.Timeout = Ptr([t EXCEPT ![f] = Ptr(d)])]

\* a Merge that replaces the timeout record of an earlier layer wholesale
MergeTimeoutWholesale(rt, lt) == IF lt = Nil THEN rt ELSE lt

\* the timeout block of Merge's loop body
MergeTimeout(rt, lt) ==
    IF lt = Nil THEN rt
    ELSE LET base == IF rt = Nil THEN EmptyTimeout ELSE Deref(rt)
             l == Deref(lt)
         IN  Ptr([f \in TimeoutFields |-> IF l[f] # Nil THEN l[f] ELSE base[f]])

\* the header block of Merge's loop body
MergeHeaders(rh, lh) ==
    IF lh = Nil THEN rh
    ELSE LET base == IF rh = Nil THEN EmptyMap ELSE Deref(rh)
         IN  Ptr(MapCopyInto(base, Deref(lh)))

\* one iteration of Merge's loop over a layer pointer
MergeLayer(result, layer) ==
    IF layer = Nil THEN result
    ELSE LET l == Deref(layer)
         IN  [Token |-> IF l.Token # Nil THEN l.Token ELSE result.Token,
              Keyspace |-> IF l.Keyspace # Nil THEN l.Keyspace ELSE result.Keyspace,
              APIVersion |-> IF l.APIVersion # Nil THEN l.APIVersion ELSE result.APIVersion,
              HTTPClient |-> IF l.HTTPClient # Nil THEN l.HTTPClient ELSE result.HTTPClient,
              Headers |-> MergeHeaders(result.Headers, l.Headers),
              Timeout |-> MergeTimeout(result.Timeout, l.Timeout),
              Serdes |-> IF l.Serdes # Nil THEN l.Serdes ELSE result.Serdes,
              WarningHandler |-> IF l.WarningHandler # Nil THEN l.WarningHandler
                                 ELSE result.WarningHandler]

RECURSIVE MergeFrom(_, _)
MergeFrom(result, ls) ==
    IF ls = << >> THEN result
    ELSE MergeFrom(MergeLayer(result, Head(ls)), Tail(ls))

\* Merge(layers ...*APIOptions)
Merge(ls) == MergeFrom(DefaultAPIOptions, ls)

VARIABLES
    layers,     \* layers[l]: the *APIOptions owned by handle l (Nil or Ptr)
    nopts,      \* option setters applied so far
    mergeArgs,  \* the layers handed to the last Merge call, in order
    resolved,   \* the result of the last Merge call, Nil before it
    caller,     \* who made that call: "command", "admin" or "direct"
    maps        \* maps[a]: the header map or timeout struct at address a, where
                \* the layers hold them by address (empty where they hold values)

optVars == <<layers, nopts, mergeArgs, resolved, caller, maps>>

\* the cursor and its fetcher (cursor/cursor.go)
VARIABLES
    ctor,       \* the constructor that built the cursor
    sizes,      \* the fetcher's page chain: sizes[p] documents on page p
    lastTok,    \* the next-page state returned with the last page
    fails,      \* the invocations (by number) on which the fetcher fails
    cur,        \* the Cursor struct
    fetchLog,   \* the page state of every fetcher invocation so far
    handed,     \* the documents made current by a Next that returned true
    op,         \* the last method called on the cursor
    ret,        \* what it returned
    pc,         \* position of the caller's iteration loop ("free": no loop)
    out,        \* the documents the loop decoded
    mu,         \* Cursor.mu: Nil when unlocked, else the thread that holds it
    tpc,        \* tpc[t]: the method thread t is in, "idle" outside any
    inFlight    \* the threads whose call is inside a fetcher invocation

thrVars == <<mu, tpc, inFlight>>
curVars == <<ctor, sizes, lastTok, fails, cur, fetchLog, handed, op, ret, pc, out, thrVars>>

\* one command and the HTTP client it uses (command.go)
VARIABLES
    cmd,        \* the command struct
    cmdOp,      \* the last method called on the command
    httpLog,    \* the requests handed to httpClient.Do so far
    response,   \* what the HTTP client will produce; the arguments of ExtractErrors
    cmdRet      \* what the method returned

cmdVars == <<cmd, cmdOp, httpLog, response, cmdRet>>
vars == <<optVars, curVars, cmdVars>>

\* the argument lists of a direct Merge call: every list of at most two layers
MergeLists ==
    {<< >>} \cup {<<i>> : i \in Layers} \cup {<<i, j>> : i \in Layers, j \in Layers}

\* the layer an option is applied to; a handle built with options owns a
\* NewAPIOptions() record
OptsOf(l) == IF layers[l] = Nil THEN NewAPIOptions ELSE Deref(layers[l])

Building == resolved = Nil /\ nopts < MaxOpts

ApplyOption(l, o) ==
    /\ Building
    /\ layers' = [layers EXCEPT ![l] = Ptr(o)]
    /\ nopts' = nopts + 1
    /\ UNCHANGED <<mergeArgs, resolved, caller, maps, curVars, cmdVars>>

\* NewClient() / Database() / Collection() / Table() / Admin() without options
NewHandle(l) == layers[l] = Nil /\ ApplyOption(l, NewAPIOptions)

WithToken(l) == ApplyOption(l, WithScalar(OptsOf(l), "Token", StrVal(l)))
WithKeyspace(l) == ApplyOption(l, WithScalar(OptsOf(l), "Keyspace", StrVal(l)))
WithAPIVersion(l) == ApplyOption(l, WithScalar(OptsOf(l), "APIVersion", StrVal(l)))
WithHTTPClient(l) == ApplyOption(l, WithScalar(OptsOf(l), "HTTPClient", StrVal(l)))
WithWarningHandler(l) == ApplyOption(l, WithScalar(OptsOf(l), "WarningHandler", StrVal(l)))
WithHeaderOpt(l, k) == ApplyOption(l, WithHeader(OptsOf(l), k, StrVal(l)))
WithRequestTimeout(l) == ApplyOption(l, WithTimeoutField(OptsOf(l), "Request", DurVal(l)))
WithConnectionTimeout(l) ==
    ApplyOption(l, WithTimeoutField(OptsOf(l), "Connection", DurVal(l)))
WithBulkOperationTimeout(l) ==
    ApplyOption(l, WithTimeoutField(OptsOf(l), "BulkOperation", DurVal(l)))

LayerList(args) == [i \in 1..Len(args) |-> layers[args[i]]]

\* a resolveOptions that lets the database override the resource
CommandMergeArgsDbLast == <<ClientLayer, ResourceLayer, DbLayer, CommandLayer>>

\* the argument list command.resolveOptions hands to Merge
CommandMergeArgs == <<ClientLayer, DbLayer, ResourceLayer, CommandLayer>>

\* the argument list Admin.resolveOptions hands to Merge; Client.Options()
\* replaces nil client options by an empty record
AdminMergeArgs == <<ClientLayer, AdminLayer>>

DoMerge(who, args) ==
    /\ resolved = Nil
    /\ caller' = who
    /\ mergeArgs' = args
    /\ resolved' = Ptr(Merge(LayerList(args)))
    /\ UNCHANGED <<layers, nopts, maps, curVars, cmdVars>>

\* command.resolveOptions()
ResolveOptions == DoMerge("command", CommandMergeArgs)

\* Admin.resolveOptions()
AdminResolveOptions == DoMerge("admin", AdminMergeArgs)

\* options.Merge(layers...) called directly
MergeCall == \E args \in MergeLists : DoMerge("direct", args)

InitOptions ==
    /\ layers = [l \in Layers |-> Nil]
    /\ nopts = 0
    /\ mergeArgs = << >>
    /\ resolved = Nil
    /\ caller = "none"
    /\ maps = << >>

NextOptions ==
    \/ \E l \in Layers : NewHandle(l)
    \/ \E l \in Layers : WithToken(l)
    \/ \E l \in Layers : WithKeyspace(l)
    \/ \E l \in Layers : WithAPIVersion(l)
    \/ \E l \in Layers : WithHTTPClient(l)
    \/ \E l \in Layers : WithWarningHandler(l)
    \/ \E l \in Layers, k \in HeaderKeys : WithHeaderOpt(l, k)
    \/ \E l \in Layers : WithRequestTimeout(l)
    \/ \E l \in Layers : WithConnectionTimeout(l)
    \/ \E l \in Layers : WithBulkOperationTimeout(l)
    \/ ResolveOptions
    \/ AdminResolveOptions
    \/ MergeCall


(***************************************************************************)
(* command.go                                                              *)
(***************************************************************************)
\* errors are tuples, so that any two of them can be compared
ErrCmdNilDb == <<"command cannot execute with nil Db">>
ErrNilDb == <<"nil Db">>
ErrEmptyEndpoint == <<"empty API endpoint">>
ErrMarshal == <<"json: unsupported type">>
ErrTransport == <<"Post: dial tcp: connection refused">>
ErrRead == <<"unexpected EOF">>

\* a string is a tuple; the empty string is the empty tuple
EmptyString == << >>

\* errors.New(text)
ErrorsNew(text) == <<"errors.New", text>>

\* &errs.Errors as an error value: the DataAPIErrors slice
DataAPIErrorsOf(entries) == <<"DataAPIErrors", entries>>

\* DataAPIErrors.Unwrap: the entries, in order
Unwrap(e) == IF e[1] = "DataAPIErrors" THEN [i \in 1..Len(e[2]) |-> e[2][i]] ELSE << >>

\* the i-th entry a server puts in an errors or warnings array
Entry(i) == [message |-> <<"message", i>>, errorCode |-> <<"CODE", i>>]

\* the arrays a response body may carry
EntryLists == {<< >>, <<Entry(1)>>, <<Entry(1), Entry(2)>>, <<Entry(2), Entry(1)>>}

\* a response body that is no JSON document
NotJSON == [json |-> FALSE, message |-> Nil, errors |-> Nil, warnings |-> Nil]

\* response bodies: no JSON, or a JSON object with an optional message, an
\* optional errors array and an optional warnings array under status
Bodies ==
    {NotJSON} \cup
    [json : {TRUE},
     message : {Nil, Ptr(EmptyString), Ptr(<<"resuming">>)},
     errors : {Nil} \cup {Ptr(l) : l \in EntryLists},
     warnings : {Nil} \cup {Ptr(l) : l \in EntryLists}]

StatusCodes == {200, 399, 400, 503}

\* string(body)
String(body) == <<"bytes of", body>>

\* json.Unmarshal(body, &transportErr): the fields it fills
UnmarshalDataAPIError(body) ==
    [Message |-> IF body.json /\ body.message # Nil THEN Deref(body.message)
                 ELSE EmptyString]

\* a json.Unmarshal(body, &errs) that keeps the first entry only
UnmarshalAPIErrsFirstOnly(body) ==
    [Errors |-> IF body.json /\ body.errors # Nil /\ Deref(body.errors) # << >>
                THEN <<Head(Deref(body.errors))>> ELSE << >>]

\* json.Unmarshal(body, &errs) for apiErrs
UnmarshalAPIErrs(body) ==
    [Errors |-> IF body.json /\ body.errors # Nil THEN Deref(body.errors) ELSE << >>]

\* an ExtractErrors that takes status 400 for a success
ExtractErrorsAbove400(statusCode, body) ==
    IF statusCode > 400
    THEN LET transportErr == UnmarshalDataAPIError(body)
         IN  IF Len(transportErr.Message) > 0
             THEN [body |-> Ptr(body), err |-> Ptr(ErrorsNew(transportErr.Message))]
             ELSE [body |-> Ptr(body), err |-> Ptr(ErrorsNew(String(body)))]
    ELSE LET errs == UnmarshalAPIErrs(body)
         IN  IF Len(errs.Errors) > 0
             THEN [body |-> Ptr(body), err |-> Ptr(DataAPIErrorsOf(errs.Errors))]
             ELSE [body |-> Ptr(body), err |-> Nil]

\* command.ExtractErrors(statusCode, body)
ExtractErrors(statusCode, body) ==
    IF statusCode >= 400
    THEN LET transportErr == UnmarshalDataAPIError(body)
         IN  IF Len(transportErr.Message) > 0
             THEN [body |-> Ptr(body), err |-> Ptr(ErrorsNew(transportErr.Message))]
             ELSE [body |-> Ptr(body), err |-> Ptr(ErrorsNew(String(body)))]
    ELSE LET errs == UnmarshalAPIErrs(body)
         IN  IF Len(errs.Errors) > 0
             THEN [body |-> Ptr(body), err |-> Ptr(DataAPIErrorsOf(errs.Errors))]
             ELSE [body |-> Ptr(body), err |-> Nil]

\* a warning extraction that gives up when the body carries errors
ExtractWarningsUnlessErrors(statusCode, body) ==
    IF statusCode >= 400 \/ ~body.json \/ body.warnings = Nil \/ body.errors # Nil
    THEN << >>
    ELSE Deref(body.warnings)

\* the warnings ExtractErrors returns next to the body and the error: none
\* for a status of 400 or more, else the warnings array of the body, none
\* when it cannot be parsed
ExtractWarnings(statusCode, body) ==
    IF statusCode >= 400 \/ ~body.json \/ body.warnings = Nil
    THEN << >>
    ELSE Deref(body.warnings)

\* json.Marshal of a payload: a token sequence, or an error
MarshalPayload(payload) ==
    CASE payload = "nil" -> [bytes |-> <<"null">>, err |-> Nil]
      [] payload = "name:rating" ->
            [bytes |-> <<"{", "name", ":", "rating", "}">>, err |-> Nil]
      [] OTHER -> [bytes |-> << >>, err |-> Ptr(ErrMarshal)]

\* the payloads of a command: nil, a struct with one field, a channel
Payloads == {"nil", "name:rating", "chan"}

\* a MarshalJSON that wraps the payload whatever the name is
MarshalJSONAlwaysWraps(c) ==
    LET p == MarshalPayload(c.payload)
    IN  IF p.err # Nil THEN p
        ELSE [bytes |-> <<"{", c.name, ":">> \o p.bytes \o <<"}">>, err |-> Nil]

\* command.MarshalJSON; len(c.name) > 0 is c.name # ""
MarshalJSON(c) ==
    LET p == MarshalPayload(c.payload)
    IN  IF c.name # ""
        THEN IF p.err # Nil THEN p
             ELSE [bytes |-> <<"{", c.name, ":">> \o p.bytes \o <<"}">>, err |-> Nil]
        ELSE p

\* a url() that does not look at the endpoint
CommandURLAnyEndpoint(c, opts) ==
    IF c.db = Nil THEN [url |-> << >>, err |-> Ptr(ErrNilDb)]
    ELSE [url |-> <<Deref(c.db).endpoint, "/api/json", Deref(opts.APIVersion),
                     Deref(opts.Keyspace), c.resourceName>>,
          err |-> Nil]

\* command.url(), with the resolved options for ApiVersion() and Keyspace()
CommandURL(c, opts) ==
    IF c.db = Nil THEN [url |-> << >>, err |-> Ptr(ErrNilDb)]
    ELSE IF Deref(c.db).endpoint = ""
    THEN [url |-> << >>, err |-> Ptr(ErrEmptyEndpoint)]
    ELSE [url |-> <<Deref(c.db).endpoint, "/api/json", Deref(opts.APIVersion),
                     Deref(opts.Keyspace), c.resourceName>>,
          err |-> Nil]

\* what httpClient.Do and io.ReadAll may produce: a failure of either, or a
\* response with a status and a body
Outcomes ==
    [kind : {"doError", "readError"}, status : {0}, body : {NotJSON}] \cup
    [kind : {"response"}, status : StatusCodes, body : Bodies]

\* what a method of the command returned
CmdRet(bytes, warnings, err) == [bytes |-> bytes, warnings |-> warnings, err |-> err]

\* the request Execute builds
Request(u, b, opts) ==
    [method |-> "POST", url |-> u, body |-> b, token |-> opts.Token,
     contentType |-> "application/json", headers |-> Deref(opts.Headers)]

\* command.Execute: o is what the HTTP client will produce if it is used
CommandExecute(c, log, o) ==
    IF c.db = Nil THEN [ret |-> CmdRet(Nil, << >>, Ptr(ErrCmdNilDb)), log |-> log]
    ELSE
    LET opts == Merge(LayerList(CommandMergeArgs))
        b == MarshalJSON(c)
        u == CommandURL(c, opts)
        sent == Append(log, Request(u.url, b.bytes, opts))
    IN  IF b.err # Nil THEN [ret |-> CmdRet(Nil, << >>, b.err), log |-> log]
        ELSE IF u.err # Nil THEN [ret |-> CmdRet(Nil, << >>, u.err), log |-> log]
        ELSE IF o.kind = "doError"
        THEN [ret |-> CmdRet(Nil, << >>, Ptr(ErrTransport)), log |-> sent]
        ELSE IF o.kind = "readError"
        THEN [ret |-> CmdRet(Ptr(o.body), << >>, Ptr(ErrRead)), log |-> sent]
        ELSE LET r == ExtractErrors(o.status, o.body)
             IN  [ret |-> CmdRet(r.body, ExtractWarnings(o.status, o.body), r.err),
                  log |-> sent]

\* the databases a command may belong to: none, one without an endpoint,
\* one with an endpoint
Databases == {Nil, Ptr([endpoint |-> ""]), Ptr([endpoint |-> "https://API_ENDPOINT"])}

\* newCmd / newCmdResource
NewCmd(d, resource, name, payload) ==
    [db |-> d, name |-> name, resourceName |-> resource, payload |-> payload]

\* c.Execute(ctx)
CallExecute ==
    /\ Len(httpLog) < MaxRequests
    /\ LET r == CommandExecute(cmd, httpLog, response)
       IN  /\ cmdRet' = r.ret
           /\ httpLog' = r.log
    /\ cmdOp' = "Execute"
    /\ UNCHANGED <<cmd, response, optVars, curVars>>

\* c.ExtractErrors(statusCode, body) called directly, as the tests do
CallExtractErrors ==
    /\ response.kind = "response"
    /\ LET r == ExtractErrors(response.status, response.body)
       IN  cmdRet' = CmdRet(r.body, ExtractWarnings(response.status, response.body), r.err)
    /\ cmdOp' = "ExtractErrors"
    /\ UNCHANGED <<cmd, httpLog, response, optVars, curVars>>

\* json.Marshal(c)
CallMarshalJSON ==
    /\ LET r == MarshalJSON(cmd)
       IN  cmdRet' = CmdRet(Ptr(r.bytes), << >>, r.err)
    /\ cmdOp' = "MarshalJSON"
    /\ UNCHANGED <<cmd, httpLog, response, optVars, curVars>>

\* no command is used while the option layer or a cursor is explored
IdleCommand ==
    /\ cmd = NewCmd(Nil, "", "", "nil")
    /\ cmdOp = "none"
    /\ httpLog = << >>
    /\ response = [kind |-> "doError", status |-> 0, body |-> NotJSON]
    /\ cmdRet = CmdRet(Nil, << >>, Nil)

\* the handles were built, with or without a token on the client, and a
\* command was made by newCmd or newCmdResource; the server's answer to the
\* command, or the arguments of a direct ExtractErrors call, are any outcome
NewCommand ==
    /\ layers \in {[l \in Layers |-> Nil],
                   [l \in Layers |-> IF l = ClientLayer
                                     THEN Ptr(WithScalar(NewAPIOptions, "Token", StrVal(l)))
                                     ELSE Nil]}
    /\ nopts = 0
    /\ mergeArgs = << >>
    /\ resolved = Nil
    /\ caller = "none"
    /\ maps = << >>
    /\ cmd \in {NewCmd(d, res, n, p) : d \in Databases, res \in {"", "books"},
                                       n \in {"", "dropIndex"}, p \in Payloads}
    /\ cmdOp = "none"
    /\ httpLog = << >>
    /\ response \in Outcomes
    /\ cmdRet = CmdRet(Nil, << >>, Nil)

NextCommand == CallExecute \/ CallExtractErrors \/ CallMarshalJSON


(***************************************************************************)
(* cursor/cursor.go                                                        *)
(***************************************************************************)
CursorStateIdle == "Idle"
CursorStateActive == "Active"
CursorStateExhausted == "Exhausted"
CursorStateClosed == "Closed"

\* errors are tuples, so that any two of them can be compared
ErrCursorClosed == <<"cursor is closed">>
ErrNoCurrentDocument == <<"no current document; call Next() first">>
ErrUnmarshal == <<"json: cannot unmarshal">>
ErrInvalid == <<"invalid filter type">>
FetchErr(n) == <<"fetch failed", n>>

\* the empty string as a page state; the page state of page p is p
EmptyPageState == 0


\* the documents of page p, each one distinct
PageDocs(p) == [j \in 1..sizes[p] |-> <<p, j>>]

\* the next-page state returned with page p
TokenAfter(p) == IF p < Len(sizes) THEN Ptr(p + 1) ELSE lastTok

\* type PageFetcher: invocation number n with page state ps (nil: first page)
Fetcher(ps, n) ==
    LET p == IF ps = Nil THEN 1 ELSE Deref(ps)
    IN  IF n \in fails
        THEN [documents |-> << >>, nextPageState |-> Nil, err |-> Ptr(FetchErr(n))]
        ELSE [documents |-> PageDocs(p), nextPageState |-> TokenAfter(p), err |-> Nil]

\* c.nextPageState != nil && *c.nextPageState != ""
HasToken(ps) == ps # Nil /\ Deref(ps) # EmptyPageState

\* New(fetcher)
New ==
    [hasFetcher |-> TRUE, state |-> CursorStateIdle, buffer |-> << >>, position |-> -1,
     nextPageState |-> Nil, err |-> Nil, initialized |-> FALSE]

\* NewWithError(err): every field but state and err keeps its zero value
NewWithError(e) ==
    [hasFetcher |-> FALSE, state |-> CursorStateExhausted, buffer |-> << >>,
     position |-> 0, nextPageState |-> Nil, err |-> Ptr(e), initialized |-> FALSE]

\* a NewWithInitialData that leaves the cursor uninitialized
NewWithInitialDataUninitialized(documents, nextPageState) ==
    [hasFetcher |-> TRUE,
     state |-> IF Len(documents) = 0 /\ ~HasToken(nextPageState)
               THEN CursorStateExhausted ELSE CursorStateIdle,
     buffer |-> documents, position |-> -1, nextPageState |-> nextPageState,
     err |-> Nil, initialized |-> FALSE]

\* NewWithInitialData(documents, nextPageState, fetcher)
NewWithInitialData(documents, nextPageState) ==
    [hasFetcher |-> TRUE,
     state |-> IF Len(documents) = 0 /\ ~HasToken(nextPageState)
               THEN CursorStateExhausted ELSE CursorStateIdle,
     buffer |-> documents, position |-> -1, nextPageState |-> nextPageState,
     err |-> Nil, initialized |-> TRUE]

\* a fetchPageLocked that puts the position on the first document of the page
FetchPageLockedAtFirst(c, ps, log) ==
    LET r == Fetcher(ps, Len(log) + 1)
    IN  IF r.err # Nil
        THEN [cur |-> c, log |-> Append(log, ps), err |-> r.err, panic |-> FALSE]
        ELSE [cur |-> [c EXCEPT !.buffer = r.documents,
                                !.position = 0,
                                !.nextPageState = r.nextPageState],
              log |-> Append(log, ps), err |-> Nil, panic |-> FALSE]

\* a fetchPageLocked that forgets to store the next-page state
FetchPageLockedKeepsToken(c, ps, log) ==
    LET r == Fetcher(ps, Len(log) + 1)
    IN  IF r.err # Nil
        THEN [cur |-> c, log |-> Append(log, ps), err |-> r.err, panic |-> FALSE]
        ELSE [cur |-> [c EXCEPT !.buffer = r.documents, !.position = -1],
              log |-> Append(log, ps), err |-> Nil, panic |-> FALSE]

\* a fetchPageLocked that stores what the fetcher returned before it looks
\* at the error
FetchPageLockedStoresOnError(c, ps, log) ==
    IF ~c.hasFetcher
    THEN [cur |-> c, log |-> log, err |-> Nil, panic |-> TRUE]
    ELSE LET r == Fetcher(ps, Len(log) + 1)
         IN  [cur |-> [c EXCEPT !.buffer = r.documents,
                                !.position = -1,
                                !.nextPageState = r.nextPageState],
              log |-> Append(log, ps), err |-> r.err, panic |-> FALSE]

\* a fetchPageLocked that appends the fetched page to the buffer
FetchPageLockedAppends(c, ps, log) ==
    IF ~c.hasFetcher
    THEN [cur |-> c, log |-> log, err |-> Nil, panic |-> TRUE]
    ELSE LET r == Fetcher(ps, Len(log) + 1)
         IN  IF r.err # Nil
             THEN [cur |-> c, log |-> Append(log, ps), err |-> r.err, panic |-> FALSE]
             ELSE [cur |-> [c EXCEPT !.buffer = c.buffer \o r.documents,
                                     !.position = -1,
                                     !.nextPageState = r.nextPageState],
                   log |-> Append(log, ps), err |-> Nil, panic |-> FALSE]

\* a fetchPageLocked that forgets the captured error when a fetch succeeds
FetchPageLockedClearsErr(c, ps, log) ==
    IF ~c.hasFetcher
    THEN [cur |-> c, log |-> log, err |-> Nil, panic |-> TRUE]
    ELSE LET r == Fetcher(ps, Len(log) + 1)
         IN  IF r.err # Nil
             THEN [cur |-> c, log |-> Append(log, ps), err |-> r.err, panic |-> FALSE]
             ELSE [cur |-> [c EXCEPT !.buffer = r.documents,
                                     !.position = -1,
                                     !.nextPageState = r.nextPageState,
                                     !.err = Nil],
                   log |-> Append(log, ps), err |-> Nil, panic |-> FALSE]

\* a fetchPageLocked that calls the fetcher a second time when it failed
FetchPageLockedRetries(c, ps, log) ==
    IF ~c.hasFetcher
    THEN [cur |-> c, log |-> log, err |-> Nil, panic |-> TRUE]
    ELSE LET first == Fetcher(ps, Len(log) + 1)
             tried == IF first.err # Nil THEN Append(log, ps) ELSE log
             r == Fetcher(ps, Len(tried) + 1)
         IN  IF r.err # Nil
             THEN [cur |-> c, log |-> Append(tried, ps), err |-> r.err, panic |-> FALSE]
             ELSE [cur |-> [c EXCEPT !.buffer = r.documents,
                                     !.position = -1,
                                     !.nextPageState = r.nextPageState],
                   log |-> Append(tried, ps), err |-> Nil, panic |-> FALSE]

\* fetchPageLocked: calling the nil fetcher of a NewWithError cursor panics
FetchPageLocked(c, ps, log) ==
    IF ~c.hasFetcher
    THEN [cur |-> c, log |-> log, err |-> Nil, panic |-> TRUE]
    ELSE LET r == Fetcher(ps, Len(log) + 1)
         IN  IF r.err # Nil
             THEN [cur |-> c, log |-> Append(log, ps), err |-> r.err, panic |-> FALSE]
             ELSE [cur |-> [c EXCEPT !.buffer = r.documents,
                                     !.position = -1,
                                     !.nextPageState = r.nextPageState],
                   log |-> Append(log, ps), err |-> Nil, panic |-> FALSE]

\* a Next that reports the end of the results without marking the cursor
\* Exhausted
NextAdvanceStaysActive(c, log) ==
    LET a == [c EXCEPT !.state = CursorStateActive]
    IN  IF a.position + 1 < Len(a.buffer)
        THEN [cur |-> [a EXCEPT !.position = a.position + 1], log |-> log,
              ok |-> TRUE, panic |-> FALSE]
        ELSE IF ~HasToken(a.nextPageState)
        THEN [cur |-> a, log |-> log, ok |-> FALSE, panic |-> FALSE]
        ELSE LET f == FetchPageLocked(a, a.nextPageState, log)
             IN  IF f.panic
                 THEN [cur |-> a, log |-> f.log, ok |-> FALSE, panic |-> TRUE]
                 ELSE IF f.err # Nil
                 THEN [cur |-> [f.cur EXCEPT !.err = f.err], log |-> f.log,
                       ok |-> FALSE, panic |-> FALSE]
                 ELSE IF Len(f.cur.buffer) = 0
                 THEN [cur |-> f.cur, log |-> f.log, ok |-> FALSE, panic |-> FALSE]
                 ELSE [cur |-> [f.cur EXCEPT !.position = 0], log |-> f.log,
                       ok |-> TRUE, panic |-> FALSE]

\* Next, after the first page is there
NextAdvance(c, log) ==
    LET a == [c EXCEPT !.state = CursorStateActive]
    IN  IF a.position + 1 < Len(a.buffer)
        THEN [cur |-> [a EXCEPT !.position = a.position + 1], log |-> log,
              ok |-> TRUE, panic |-> FALSE]
        ELSE IF ~HasToken(a.nextPageState)
        THEN [cur |-> [a EXCEPT !.state = CursorStateExhausted], log |-> log,
              ok |-> FALSE, panic |-> FALSE]
        ELSE LET f == FetchPageLocked(a, a.nextPageState, log)
             IN  IF f.panic
                 THEN [cur |-> a, log |-> f.log, ok |-> FALSE, panic |-> TRUE]
                 ELSE IF f.err # Nil
                 THEN [cur |-> [f.cur EXCEPT !.err = f.err], log |-> f.log,
                       ok |-> FALSE, panic |-> FALSE]
                 ELSE IF Len(f.cur.buffer) = 0
                 THEN [cur |-> [f.cur EXCEPT !.state = CursorStateExhausted],
                       log |-> f.log, ok |-> FALSE, panic |-> FALSE]
                 ELSE [cur |-> [f.cur EXCEPT !.position = 0], log |-> f.log,
                       ok |-> TRUE, panic |-> FALSE]

\* a Next that fails on a closed cursor without recording the closed error
CursorNextClosedSilent(c, log) ==
    IF c.state = CursorStateClosed \/ c.state = CursorStateExhausted
    THEN [cur |-> c, log |-> log, ok |-> FALSE, panic |-> FALSE]
    ELSE IF ~c.initialized
    THEN LET f == FetchPageLocked(c, Nil, log)
         IN  IF f.err # Nil
             THEN [cur |-> [f.cur EXCEPT !.err = f.err], log |-> f.log,
                   ok |-> FALSE, panic |-> FALSE]
             ELSE NextAdvance([f.cur EXCEPT !.initialized = TRUE], f.log)
    ELSE NextAdvance(c, log)

\* a Next without the early return on an Exhausted cursor
CursorNextNoExhaustedReturn(c, log) ==
    IF c.state = CursorStateClosed
    THEN [cur |-> [c EXCEPT !.err = Ptr(ErrCursorClosed)], log |-> log,
          ok |-> FALSE, panic |-> FALSE]
    ELSE IF ~c.initialized /\ c.hasFetcher
    THEN LET f == FetchPageLocked(c, Nil, log)
         IN  IF f.err # Nil
             THEN [cur |-> [f.cur EXCEPT !.err = f.err], log |-> f.log,
                   ok |-> FALSE, panic |-> FALSE]
             ELSE NextAdvance([f.cur EXCEPT !.initialized = TRUE], f.log)
    ELSE NextAdvance(c, log)

\* Cursor.Next
CursorNext(c, log) ==
    IF c.state = CursorStateClosed
    THEN [cur |-> [c EXCEPT !.err = Ptr(ErrCursorClosed)], log |-> log,
          ok |-> FALSE, panic |-> FALSE]
    ELSE IF c.state = CursorStateExhausted
    THEN [cur |-> c, log |-> log, ok |-> FALSE, panic |-> FALSE]
    ELSE IF ~c.initialized
    THEN LET f == FetchPageLocked(c, Nil, log)
         IN  IF f.panic
             THEN [cur |-> c, log |-> f.log, ok |-> FALSE, panic |-> TRUE]
             ELSE IF f.err # Nil
             THEN [cur |-> [f.cur EXCEPT !.err = f.err], log |-> f.log,
                   ok |-> FALSE, panic |-> FALSE]
             ELSE NextAdvance([f.cur EXCEPT !.initialized = TRUE], f.log)
    ELSE NextAdvance(c, log)

\* a Decode that looks at the position before it looks at the state
CursorDecodePositionFirst(c, good) ==
    IF c.position < 0 \/ c.position >= Len(c.buffer)
    THEN [err |-> Ptr(ErrNoCurrentDocument), val |-> << >>]
    ELSE IF c.state = CursorStateClosed
    THEN [err |-> Ptr(ErrCursorClosed), val |-> << >>]
    ELSE IF good
    THEN [err |-> Nil, val |-> <<c.buffer[c.position + 1]>>]
    ELSE [err |-> Ptr(ErrUnmarshal), val |-> << >>]

\* a Decode that takes the last document of the buffer
CursorDecodeLastBuffered(c, good) ==
    IF c.state = CursorStateClosed
    THEN [err |-> Ptr(ErrCursorClosed), val |-> << >>]
    ELSE IF c.position < 0 \/ c.position >= Len(c.buffer)
    THEN [err |-> Ptr(ErrNoCurrentDocument), val |-> << >>]
    ELSE IF good
    THEN [err |-> Nil, val |-> <<c.buffer[Len(c.buffer)]>>]
    ELSE [err |-> Ptr(ErrUnmarshal), val |-> << >>]

\* Cursor.Decode: good says whether the target fits the document
CursorDecode(c, good) ==
    IF c.state = CursorStateClosed
    THEN [err |-> Ptr(ErrCursorClosed), val |-> << >>]
    ELSE IF c.position < 0 \/ c.position >= Len(c.buffer)
    THEN [err |-> Ptr(ErrNoCurrentDocument), val |-> << >>]
    ELSE IF good
    THEN [err |-> Nil, val |-> <<c.buffer[c.position + 1]>>]
    ELSE [err |-> Ptr(ErrUnmarshal), val |-> << >>]

\* Cursor.Current
Current(c) ==
    IF c.position < 0 \/ c.position >= Len(c.buffer) THEN Nil
    ELSE Ptr(c.buffer[c.position + 1])

\* Cursor.State
State(c) == c.state

\* Cursor.Err
Err(c) == c.err

\* Cursor.RemainingBatchLength
RemainingBatchLength(c) ==
    IF c.position < 0 THEN Len(c.buffer)
    ELSE IF Len(c.buffer) - c.position - 1 < 0 THEN 0
    ELSE Len(c.buffer) - c.position - 1

\* Cursor.HasNextPage
HasNextPage(c) == HasToken(c.nextPageState)

\* Cursor.Close
CursorClose(c) ==
    IF c.state = CursorStateClosed THEN c
    ELSE [c EXCEPT !.state = CursorStateClosed, !.buffer = << >>, !.nextPageState = Nil]

\* a page loop of All that marks the cursor Exhausted when a fetch fails
RECURSIVE AllRemainingPagesExhaustsOnError(_, _, _)
AllRemainingPagesExhaustsOnError(c, log, allDocs) ==
    IF ~HasToken(c.nextPageState)
    THEN [cur |-> c, log |-> log, err |-> Nil, docs |-> allDocs, panic |-> FALSE]
    ELSE LET f == FetchPageLocked(c, c.nextPageState, log)
         IN  IF f.panic
             THEN [cur |-> c, log |-> f.log, err |-> Nil, docs |-> << >>, panic |-> TRUE]
             ELSE IF f.err # Nil
             THEN [cur |-> [f.cur EXCEPT !.err = f.err, !.state = CursorStateExhausted],
                   log |-> f.log, err |-> f.err, docs |-> << >>, panic |-> FALSE]
             ELSE AllRemainingPagesExhaustsOnError(f.cur, f.log, allDocs \o f.cur.buffer)

\* the "fetch remaining pages" loop of All
RECURSIVE AllRemainingPages(_, _, _)
AllRemainingPages(c, log, allDocs) ==
    IF ~HasToken(c.nextPageState)
    THEN [cur |-> c, log |-> log, err |-> Nil, docs |-> allDocs, panic |-> FALSE]
    ELSE LET f == FetchPageLocked(c, c.nextPageState, log)
         IN  IF f.panic
             THEN [cur |-> c, log |-> f.log, err |-> Nil, docs |-> << >>, panic |-> TRUE]
             ELSE IF f.err # Nil
             THEN [cur |-> [f.cur EXCEPT !.err = f.err], log |-> f.log, err |-> f.err,
                   docs |-> << >>, panic |-> FALSE]
             ELSE AllRemainingPages(f.cur, f.log, allDocs \o f.cur.buffer)

\* All, after the first page is there
AllCollect(c, log, good) ==
    LET inBuffer == IF c.position < 0 THEN c.buffer
                    ELSE IF c.position + 1 < Len(c.buffer)
                    THEN SubSeq(c.buffer, c.position + 2, Len(c.buffer))
                    ELSE << >>
        r == AllRemainingPages(c, log, inBuffer)
    IN  IF r.panic \/ r.err # Nil THEN r
        ELSE [cur |-> [r.cur EXCEPT !.state = CursorStateExhausted], log |-> r.log,
              err |-> IF good THEN Nil ELSE Ptr(ErrUnmarshal),
              docs |-> IF good THEN r.docs ELSE << >>, panic |-> FALSE]

\* Cursor.All: good says whether the target is a pointer to a fitting slice
CursorAll(c, log, good) ==
    IF c.state = CursorStateClosed
    THEN [cur |-> c, log |-> log, err |-> Ptr(ErrCursorClosed), docs |-> << >>,
          panic |-> FALSE]
    ELSE IF ~c.initialized
    THEN LET f == FetchPageLocked(c, Nil, log)
         IN  IF f.panic
             THEN [cur |-> c, log |-> f.log, err |-> Nil, docs |-> << >>, panic |-> TRUE]
             ELSE IF f.err # Nil
             THEN [cur |-> [f.cur EXCEPT !.err = f.err], log |-> f.log, err |-> f.err,
                   docs |-> << >>, panic |-> FALSE]
             ELSE AllCollect([f.cur EXCEPT !.initialized = TRUE], f.log, good)
    ELSE AllCollect(c, log, good)

\* what a call returned: the boolean of Next, the error of Decode, All and
\* Close, the value produced, and whether the call panicked
Ret(ok, err, val, panic) == [ok |-> ok, err |-> err, val |-> val, panic |-> panic]
NoRet == Ret(TRUE, Nil, << >>, FALSE)

\* the page chains a fetcher may serve
RECURSIVE SeqsUpTo(_, _)
SeqsUpTo(S, n) ==
    IF n = 0 THEN {<< >>}
    ELSE LET shorter == SeqsUpTo(S, n - 1)
         IN  shorter \cup {Append(q, x) : q \in shorter, x \in S}

RECURSIVE Sum(_)
Sum(q) == IF q = << >> THEN 0 ELSE Head(q) + Sum(Tail(q))

PageChains == {q \in SeqsUpTo(0..MaxDocs, MaxPages) : q # << >> /\ Sum(q) <= MaxDocs}

Threads == 1..MaxThreads

\* the zero value of Cursor.mu, and no thread inside a method
Unlocked ==
    /\ mu = Nil
    /\ tpc = [t \in Threads |-> "idle"]
    /\ inFlight = {}

\* the cursor's state right after each constructor
Constructed(how) ==
    CASE how = "New" -> New
      [] how = "NewWithInitialData" -> NewWithInitialData(PageDocs(1), TokenAfter(1))
      [] OTHER -> NewWithError(ErrInvalid)

InitCursor(loop) ==
    /\ ctor \in {"New", "NewWithInitialData", "NewWithError"}
    /\ IF ctor = "NewWithError"
       THEN sizes = << >> /\ lastTok = Nil /\ fails = {}
       ELSE /\ sizes \in PageChains
            /\ lastTok \in {Nil, Ptr(EmptyPageState)}
            /\ fails \in SUBSET (1..MaxFailCalls)
    /\ cur = Constructed(ctor)
    /\ fetchLog = << >>
    /\ handed = << >>
    /\ op = "none"
    /\ ret = NoRet
    /\ pc = loop
    /\ out = << >>
    /\ Unlocked

\* the cursor is not used while the option layer is explored
IdleCursor ==
    /\ ctor = "none" /\ sizes = << >> /\ lastTok = Nil /\ fails = {}
    /\ cur = New /\ fetchLog = << >> /\ handed = << >>
    /\ op = "none" /\ ret = NoRet /\ pc = "none" /\ out = << >>
    /\ Unlocked

\* c.Next(ctx) called by anyone
DoNext ==
    LET r == CursorNext(cur, fetchLog)
    IN  /\ cur' = r.cur
        /\ fetchLog' = r.log
        /\ handed' = IF r.ok THEN Append(handed, Deref(Current(r.cur))) ELSE handed
        /\ op' = "Next"
        /\ ret' = Ret(r.ok, Nil, << >>, r.panic)
        /\ UNCHANGED <<ctor, sizes, lastTok, fails, optVars, cmdVars, thrVars>>

\* c.Decode(&v) called by anyone
DoDecode(good) ==
    LET r == CursorDecode(cur, good)
    IN  /\ op' = "Decode"
        /\ ret' = Ret(r.err = Nil, r.err, r.val, FALSE)
        /\ UNCHANGED <<cur, fetchLog, handed, ctor, sizes, lastTok, fails,
                       optVars, cmdVars, thrVars>>

CallNext == pc = "free" /\ DoNext /\ UNCHANGED <<pc, out>>

CallDecode == pc = "free" /\ (\E good \in BOOLEAN : DoDecode(good)) /\ UNCHANGED <<pc, out>>

\* c.All(ctx, &results)
CallAll ==
    /\ pc = "free"
    /\ \E good \in BOOLEAN :
         LET r == CursorAll(cur, fetchLog, good)
         IN  /\ cur' = r.cur
             /\ fetchLog' = r.log
             /\ op' = "All"
             /\ ret' = Ret(r.err = Nil /\ ~r.panic, r.err, r.docs, r.panic)
    /\ UNCHANGED <<handed, pc, out, ctor, sizes, lastTok, fails, optVars, cmdVars, thrVars>>

\* c.Close(ctx)
CallClose ==
    /\ pc = "free"
    /\ cur' = CursorClose(cur)
    /\ op' = "Close"
    /\ ret' = Ret(TRUE, Nil, << >>, FALSE)
    /\ UNCHANGED <<fetchLog, handed, pc, out, ctor, sizes, lastTok, fails,
                   optVars, cmdVars, thrVars>>

\* an accessor: it only reads the cursor
Accessor(name, value) ==
    /\ pc = "free"
    /\ op' = name
    /\ ret' = Ret(TRUE, Nil, <<value>>, FALSE)
    /\ UNCHANGED <<cur, fetchLog, handed, pc, out, ctor, sizes, lastTok, fails,
                   optVars, cmdVars, thrVars>>

CallState == Accessor("State", State(cur))
CallErr == Accessor("Err", Err(cur))
CallRemainingBatchLength == Accessor("RemainingBatchLength", RemainingBatchLength(cur))
CallHasNextPage == Accessor("HasNextPage", HasNextPage(cur))
CallCurrent == Accessor("Current", Current(cur))

Init == InitOptions /\ InitCursor("free") /\ IdleCommand

Next ==
    \/ CallNext
    \/ CallDecode
    \/ CallAll
    \/ CallClose
    \/ CallState
    \/ CallErr
    \/ CallRemainingBatchLength
    \/ CallHasNextPage
    \/ CallCurrent

\* one cursor, its methods called in any order
Spec == Init /\ [][Next]_vars

\* for c.Next(ctx) { c.Decode(&doc) }: the loop of the package documentation
LoopNext ==
    /\ pc = "next"
    /\ DoNext
    /\ pc' = IF CursorNext(cur, fetchLog).ok THEN "decode" ELSE "done"
    /\ UNCHANGED out

\* the loop body; a decode error makes the caller return
LoopDecode ==
    /\ pc = "decode"
    /\ \E good \in BOOLEAN :
         /\ DoDecode(good)
         /\ pc' = IF good THEN "next" ELSE "returned"
         /\ out' = out \o CursorDecode(cur, good).val

\* Next called again after the loop has ended
LoopNextAgain ==
    /\ pc \in {"done", "after"}
    /\ DoNext
    /\ pc' = "after"
    /\ UNCHANGED out

InitLoop == InitOptions /\ InitCursor("next") /\ IdleCommand

NextLoop == LoopNext \/ LoopDecode \/ LoopNextAgain

SpecLoop == InitLoop /\ [][NextLoop]_vars

\* io.EOF, and any other error a callback may return
ErrEOF == <<"EOF">>
ErrCallback == <<"callback failed">>

\* an Iterate that returns the stop signal like any other error
IterateEOFAsError(e) == Ptr(e)

\* Iterate, `if err := fn(doc); err != nil`: what Iterate returns
IterateOnCallbackError(e) == IF e = ErrEOF THEN Nil ELSE Ptr(e)

\* Iterate, loop condition: c.Next(ctx)
IterateNext ==
    /\ pc = "iterate"
    /\ DoNext
    /\ pc' = IF CursorNext(cur, fetchLog).ok THEN "callback" ELSE "drained"
    /\ UNCHANGED out

\* Iterate, loop body: doc := c.Current(); fn(doc) returns nil, io.EOF or
\* another error
IterateCallback ==
    /\ pc = "callback"
    /\ out' = out \o Current(cur)
    /\ \E e \in {Nil, Ptr(ErrEOF), Ptr(ErrCallback)} :
         IF e = Nil
         THEN pc' = "iterate" /\ UNCHANGED <<op, ret>>
         ELSE /\ pc' = IF Deref(e) = ErrEOF THEN "stopped" ELSE "aborted"
              /\ op' = "Iterate"
              /\ ret' = LET r == IterateOnCallbackError(Deref(e))
                        IN  Ret(r = Nil, r, << >>, FALSE)
    /\ UNCHANGED <<cur, fetchLog, handed, ctor, sizes, lastTok, fails, optVars, cmdVars, thrVars>>

\* Iterate, after the loop: return c.Err()
IterateReturn ==
    /\ pc = "drained"
    /\ pc' = "ended"
    /\ op' = "Iterate"
    /\ ret' = Ret(Err(cur) = Nil, Err(cur), << >>, FALSE)
    /\ UNCHANGED <<cur, fetchLog, handed, out, ctor, sizes, lastTok, fails,
                   optVars, cmdVars, thrVars>>

\* c.Err() called after Iterate has returned
IterateThenErr ==
    /\ pc \in {"stopped", "aborted", "ended"}
    /\ pc' = "checked"
    /\ op' = "Err"
    /\ ret' = Ret(TRUE, Nil, <<Err(cur)>>, FALSE)
    /\ UNCHANGED <<cur, fetchLog, handed, out, ctor, sizes, lastTok, fails,
                   optVars, cmdVars, thrVars>>

InitIterate == InitOptions /\ InitCursor("iterate") /\ IdleCommand

NextIterate == IterateNext \/ IterateCallback \/ IterateReturn \/ IterateThenErr

\* c.Iterate(ctx, fn) on a new cursor, then c.Err()
SpecIterate == InitIterate /\ [][NextIterate]_vars

\* the methods a thread may call on the shared cursor
Methods ==
    {"Next", "Decode", "All", "Close", "State", "Err", "RemainingBatchLength",
     "HasNextPage", "Current"}

\* the body of method m, run on the cursor as it is now: the cursor and the
\* fetcher invocations after it, what it returns, the documents handed out
MethodBody(m, good) ==
    CASE m = "Next" ->
            LET r == CursorNext(cur, fetchLog)
            IN  [cur |-> r.cur, log |-> r.log, ret |-> Ret(r.ok, Nil, << >>, r.panic),
                 handed |-> IF r.ok THEN Append(handed, Deref(Current(r.cur)))
                            ELSE handed]
      [] m = "Decode" ->
            LET r == CursorDecode(cur, good)
            IN  [cur |-> cur, log |-> fetchLog, ret |-> Ret(r.err = Nil, r.err, r.val, FALSE),
                 handed |-> handed]
      [] m = "All" ->
            LET r == CursorAll(cur, fetchLog, good)
            IN  [cur |-> r.cur, log |-> r.log,
                 ret |-> Ret(r.err = Nil /\ ~r.panic, r.err, r.docs, r.panic),
                 handed |-> handed]
      [] m = "Close" ->
            [cur |-> CursorClose(cur), log |-> fetchLog, ret |-> Ret(TRUE, Nil, << >>, FALSE),
             handed |-> handed]
      [] OTHER ->
            LET value == CASE m = "State" -> State(cur)
                           [] m = "Err" -> Err(cur)
                           [] m = "RemainingBatchLength" -> RemainingBatchLength(cur)
                           [] m = "HasNextPage" -> HasNextPage(cur)
                           [] OTHER -> Current(cur)
            IN  [cur |-> cur, log |-> fetchLog, ret |-> Ret(TRUE, Nil, <<value>>, FALSE),
                 handed |-> handed]

\* the call thread t is in invokes the fetcher
WillFetch(t) == MethodBody(tpc[t], TRUE).log # fetchLog

\* c.mu.Lock() returns only when no thread holds the mutex
TryLock(holder) == holder = Nil

\* c.mu.Lock() at the head of every method: thread t enters method m
ThreadLock(t, m) ==
    /\ pc = "threads"
    /\ tpc[t] = "idle"
    /\ TryLock(mu)
    /\ mu' = Ptr(t)
    /\ tpc' = [tpc EXCEPT ![t] = m]
    /\ UNCHANGED <<ctor, sizes, lastTok, fails, cur, fetchLog, handed, op, ret, pc, out,
                   inFlight, optVars, cmdVars>>

\* c.fetcher(ctx, pageState) is invoked inside Next or All, the mutex held
ThreadFetch(t) ==
    /\ tpc[t] \in {"Next", "All"}
    /\ t \notin inFlight
    /\ WillFetch(t)
    /\ inFlight' = inFlight \cup {t}
    /\ UNCHANGED <<ctor, sizes, lastTok, fails, cur, fetchLog, handed, op, ret, pc, out,
                   mu, tpc, optVars, cmdVars>>

\* the method returns and its deferred c.mu.Unlock() runs
ThreadReturn(t) ==
    /\ tpc[t] # "idle"
    /\ WillFetch(t) => t \in inFlight
    /\ \E good \in BOOLEAN :
         LET r == MethodBody(tpc[t], good)
         IN  /\ cur' = r.cur
             /\ fetchLog' = r.log
             /\ handed' = r.handed
    /\ mu' = IF mu = Ptr(t) THEN Nil ELSE mu
    /\ tpc' = [tpc EXCEPT ![t] = "idle"]
    /\ inFlight' = inFlight \ {t}
    /\ UNCHANGED <<ctor, sizes, lastTok, fails, op, ret, pc, out, optVars, cmdVars>>

InitThreads == InitOptions /\ InitCursor("threads") /\ IdleCommand

NextThreads ==
    \/ \E t \in Threads, m \in Methods : ThreadLock(t, m)
    \/ \E t \in Threads : ThreadFetch(t)
    \/ \E t \in Threads : ThreadReturn(t)

\* several threads call the methods of one cursor in any interleaving
SpecThreads == InitThreads /\ [][NextThreads]_vars

\* thread t at the head of its loop, `for c.Next(ctx)`: the method holds the
\* mutex for its whole body, fetches included, so it is one step; handed
\* records what Next moved to
RaceNext(t) ==
    /\ pc = "race"
    /\ tpc[t] = "idle"
    /\ TryLock(mu)
    /\ LET r == CursorNext(cur, fetchLog)
       IN  /\ cur' = r.cur
           /\ fetchLog' = r.log
           /\ handed' = IF r.ok THEN Append(handed, Deref(Current(r.cur))) ELSE handed
           /\ tpc' = [tpc EXCEPT ![t] = IF r.ok THEN "Decode" ELSE "done"]
    /\ UNCHANGED <<op, ret, pc, out, mu, inFlight, ctor, sizes, lastTok, fails,
                   optVars, cmdVars>>

\* thread t in its loop body, `c.Decode(&doc)`: out records who decoded what
RaceDecode(t) ==
    /\ pc = "race"
    /\ tpc[t] = "Decode"
    /\ TryLock(mu)
    /\ LET r == CursorDecode(cur, TRUE)
       IN  /\ out' = IF r.err = Nil THEN Append(out, <<t, Deref(r.val)>>) ELSE out
           /\ tpc' = [tpc EXCEPT ![t] = IF r.err = Nil THEN "idle" ELSE "done"]
    /\ UNCHANGED <<cur, fetchLog, handed, op, ret, pc, mu, inFlight, ctor, sizes,
                   lastTok, fails, optVars, cmdVars>>

InitRace == InitOptions /\ InitCursor("race") /\ IdleCommand

NextRace ==
    \/ \E t \in Threads : RaceNext(t)
    \/ \E t \in Threads : RaceDecode(t)

\* every thread runs the Next-then-Decode loop on the one cursor
SpecRace == InitRace /\ [][NextRace]_vars

\* the option layers are built, then merged once
InitLayers == InitOptions /\ IdleCursor /\ IdleCommand

SpecOptions == InitLayers /\ [][NextOptions]_vars

InitCommand == NewCommand /\ IdleCursor

\* one command: Execute, ExtractErrors and MarshalJSON called in any order
SpecCommand == InitCommand /\ [][NextCommand]_vars

\* Merge with header maps and timeout structs held by address: a Go map and
\* a *TimeoutOptions are references, and the heap says what they refer to.
\* DefaultAPIOptions(): make(map[string]string) and &TimeoutOptions{...}
\* allocate two new cells
DefaultAPIOptionsIn(heap) ==
    [heap |-> heap \o <<EmptyMap, Deref(DefaultAPIOptions.Timeout)>>,
     result |-> [DefaultAPIOptions EXCEPT !.Headers = Ptr(Len(heap) + 1),
                                          !.Timeout = Ptr(Len(heap) + 2)]]

\* a Merge that takes over the header map of a layer while its own is empty
MergeLayerInAdoptsMap(st, layer) ==
    IF layer = Nil THEN st
    ELSE LET l == Deref(layer)
             r == st.result
             scalars == MergeLayer([r EXCEPT !.Headers = Nil, !.Timeout = Nil],
                                   Ptr([l EXCEPT !.Headers = Nil, !.Timeout = Nil]))
             adopt == /\ l.Headers # Nil
                      /\ r.Headers # Nil
                      /\ st.heap[Deref(r.Headers)] = EmptyMap
             rh == IF adopt THEN l.Headers ELSE r.Headers
             h2 == IF l.Headers = Nil \/ adopt THEN st.heap
                   ELSE [st.heap EXCEPT ![Deref(rh)] =
                            MapCopyInto(st.heap[Deref(rh)], st.heap[Deref(l.Headers)])]
             h4 == IF l.Timeout = Nil THEN h2
                   ELSE [h2 EXCEPT ![Deref(r.Timeout)] =
                            Deref(MergeTimeout(Ptr(h2[Deref(r.Timeout)]),
                                               Ptr(h2[Deref(l.Timeout)])))]
         IN  [heap |-> h4, result |-> [scalars EXCEPT !.Headers = rh, !.Timeout = r.Timeout]]

\* one iteration of Merge's loop: the scalar fields are copied as in
\* MergeLayer; the header and timeout blocks write through result.Headers
\* and result.Timeout, making a new map or struct where result has none
MergeLayerIn(st, layer) ==
    IF layer = Nil THEN st
    ELSE LET l == Deref(layer)
             r == st.result
             scalars == MergeLayer([r EXCEPT !.Headers = Nil, !.Timeout = Nil],
                                   Ptr([l EXCEPT !.Headers = Nil, !.Timeout = Nil]))
             h1 == IF l.Headers # Nil /\ r.Headers = Nil
                   THEN Append(st.heap, EmptyMap) ELSE st.heap
             rh == IF l.Headers # Nil /\ r.Headers = Nil THEN Ptr(Len(h1)) ELSE r.Headers
             h2 == IF l.Headers = Nil THEN h1
                   ELSE [h1 EXCEPT ![Deref(rh)] =
                            MapCopyInto(h1[Deref(rh)], h1[Deref(l.Headers)])]
             h3 == IF l.Timeout # Nil /\ r.Timeout = Nil
                   THEN Append(h2, EmptyTimeout) ELSE h2
             rt == IF l.Timeout # Nil /\ r.Timeout = Nil THEN Ptr(Len(h3)) ELSE r.Timeout
             h4 == IF l.Timeout = Nil THEN h3
                   ELSE [h3 EXCEPT ![Deref(rt)] =
                            Deref(MergeTimeout(Ptr(h3[Deref(rt)]), Ptr(h3[Deref(l.Timeout)])))]
         IN  [heap |-> h4, result |-> [scalars EXCEPT !.Headers = rh, !.Timeout = rt]]

RECURSIVE MergeFromIn(_, _)
MergeFromIn(st, ls) ==
    IF ls = << >> THEN st
    ELSE MergeFromIn(MergeLayerIn(st, Head(ls)), Tail(ls))

\* Merge(layers ...*APIOptions) over the heap
MergeIn(heap, ls) == MergeFromIn(DefaultAPIOptionsIn(heap), ls)

\* the layers handed to Merge, and where each keeps its map and its struct
AliasLayers == {ClientLayer, DbLayer}
HeadersAt(l) == 2 * l - 1
TimeoutAt(l) == 2 * l

\* what a caller may have put into layer l before Merge is called
HeaderMapsOf(l) ==
    {EmptyMap, MapPut(EmptyMap, "a", StrVal(l)),
     MapPut(MapPut(EmptyMap, "a", StrVal(l)), "b", StrVal(l))}
TimeoutsOf(l) ==
    {[EmptyTimeout EXCEPT !.Request = Ptr(DurVal(l))],
     [EmptyTimeout EXCEPT !.Connection = Ptr(DurVal(l))]}
LayersAt(l) ==
    {Nil} \cup {Ptr([ZeroAPIOptions EXCEPT !.Headers = h, !.Timeout = t]) :
                    h \in {Nil, Ptr(HeadersAt(l))}, t \in {Nil, Ptr(TimeoutAt(l))}}

\* the value a header gets when it is set after the layers were built
LaterVal(n) == <<"set-later", n>>

AliasMergeLists ==
    {<< >>} \cup {<<i>> : i \in AliasLayers} \cup {<<i, j>> : i \in AliasLayers, j \in AliasLayers}

\* options.Merge(layers...)
AliasMerge ==
    /\ resolved = Nil
    /\ \E args \in AliasMergeLists :
         LET r == MergeIn(maps, LayerList(args))
         IN  /\ maps' = r.heap
             /\ resolved' = Ptr(r.result)
             /\ mergeArgs' = args
    /\ caller' = "direct"
    /\ UNCHANGED <<layers, nopts, curVars, cmdVars>>

\* WithHeader(k, v)(layer): o.Headers[key] = value on a layer that has a map
SetLayerHeader(l, k) ==
    /\ nopts < MaxOpts
    /\ layers[l] # Nil
    /\ Deref(layers[l]).Headers # Nil
    /\ maps' = [maps EXCEPT ![Deref(Deref(layers[l]).Headers)] = MapPut(@, k, LaterVal(nopts))]
    /\ nopts' = nopts + 1
    /\ UNCHANGED <<layers, mergeArgs, resolved, caller, curVars, cmdVars>>

\* WithHeader(k, v)(result): o.Headers[key] = value on what Merge returned
SetResultHeader(k) ==
    /\ nopts < MaxOpts
    /\ resolved # Nil
    /\ maps' = [maps EXCEPT ![Deref(Deref(resolved).Headers)] = MapPut(@, k, LaterVal(nopts))]
    /\ nopts' = nopts + 1
    /\ UNCHANGED <<layers, mergeArgs, resolved, caller, curVars, cmdVars>>

InitAlias ==
    /\ layers \in {[l \in Layers |-> IF l = ClientLayer THEN c
                                     ELSE IF l = DbLayer THEN d ELSE Nil] :
                        c \in LayersAt(ClientLayer), d \in LayersAt(DbLayer)}
    /\ maps \in {<<hc, tc, hd, td>> :
                    hc \in HeaderMapsOf(ClientLayer), tc \in TimeoutsOf(ClientLayer),
                    hd \in HeaderMapsOf(DbLayer), td \in TimeoutsOf(DbLayer)}
    /\ nopts = 0
    /\ mergeArgs = << >>
    /\ resolved = Nil
    /\ caller = "none"
    /\ IdleCursor
    /\ IdleCommand

NextAlias ==
    \/ AliasMerge
    \/ \E l \in AliasLayers, k \in HeaderKeys : SetLayerHeader(l, k)
    \/ \E k \in HeaderKeys : SetResultHeader(k)

\* layers are built, merged once, and headers are set on the layers and on
\* the result before and after
SpecAlias == InitAlias /\ [][NextAlias]_vars

\* the core in use: a cursor is iterated or a command is executed
InitCore == Init \/ InitCommand

\* pc tells which of the two is in use
NextCore ==
    \/ pc = "free" /\ Next
    \/ pc = "none" /\ NextCommand

SpecCore == InitCore /\ [][NextCore]_vars

(***************************************************************************)
(* Claims about the option layer                                           *)
(***************************************************************************)
Max(S) == CHOOSE x \in S : \A y \in S : y <= x

\* the positions of ls whose layer defines scalar field f
DefinesScalar(ls, f) == {i \in 1..Len(ls) : ls[i] # Nil /\ Deref(ls[i])[f] # Nil}

\* the positions of ls whose layer defines timeout sub-field g
DefinesTimeout(ls, g) ==
    {i \in 1..Len(ls) :
        /\ ls[i] # Nil
        /\ Deref(ls[i]).Timeout # Nil
        /\ Deref(Deref(ls[i]).Timeout)[g] # Nil}

DocumentedScalarDefault(f) ==
    CASE f = "APIVersion" -> Ptr("v1")
      [] f = "Keyspace" -> Ptr("default_keyspace")
      [] f = "HTTPClient" -> Ptr(DefaultHTTPClient)
      [] OTHER -> Nil

DocumentedTimeoutDefault(g) == IF g = "Request" THEN Ptr(30) ELSE Nil

LastWinsScalar(ls, f) ==
    IF DefinesScalar(ls, f) = {} THEN DocumentedScalarDefault(f)
    ELSE Deref(ls[Max(DefinesScalar(ls, f))])[f]

LastWinsTimeout(ls, g) ==
    IF DefinesTimeout(ls, g) = {} THEN DocumentedTimeoutDefault(g)
    ELSE Deref(Deref(ls[Max(DefinesTimeout(ls, g))]).Timeout)[g]

\* C1: after Merge over any ordered list of layers, every scalar field and,
\* independently, every timeout sub-field of the result holds the value of
\* the last layer of the list that defines it, and the documented default
\* ("v1", "default_keyspace", 30 s; otherwise unset) when no layer does.
C1_MergeLastWins ==
    resolved # Nil =>
        LET ls == LayerList(mergeArgs)
            r == Deref(resolved)
        IN  /\ \A f \in ScalarFields : r[f] = LastWinsScalar(ls, f)
            /\ r.Timeout # Nil
            /\ \A g \in TimeoutFields : Deref(r.Timeout)[g] = LastWinsTimeout(ls, g)

\* a later layer set only the request timeout, an earlier one the connection
\* timeout, and the merged result carries both
C1_Witness ==
    /\ resolved # Nil
    /\ Len(mergeArgs) = 2
    /\ mergeArgs[1] # mergeArgs[2]
    /\ DefinesTimeout(LayerList(mergeArgs), "Connection") = {1}
    /\ DefinesTimeout(LayerList(mergeArgs), "Request") = {2}
    /\ Deref(Deref(resolved).Timeout).Connection = Ptr(DurVal(mergeArgs[1]))
    /\ Deref(Deref(resolved).Timeout).Request = Ptr(DurVal(mergeArgs[2]))

\* the first layer, in the priority order prio, that defines scalar field f
RECURSIVE FirstScalar(_, _)
FirstScalar(prio, f) ==
    IF prio = << >> THEN DocumentedScalarDefault(f)
    ELSE IF layers[Head(prio)] # Nil /\ Deref(layers[Head(prio)])[f] # Nil
         THEN Deref(layers[Head(prio)])[f]
         ELSE FirstScalar(Tail(prio), f)

RECURSIVE FirstTimeout(_, _)
FirstTimeout(prio, g) ==
    IF prio = << >> THEN DocumentedTimeoutDefault(g)
    ELSE LET p == layers[Head(prio)]
         IN  IF p # Nil /\ Deref(p).Timeout # Nil /\ Deref(Deref(p).Timeout)[g] # Nil
             THEN Deref(Deref(p).Timeout)[g]
             ELSE FirstTimeout(Tail(prio), g)

\* the layers of prio that carry header k
HasHeader(l, k) ==
    /\ layers[l] # Nil
    /\ Deref(layers[l]).Headers # Nil
    /\ k \in DOMAIN Deref(Deref(layers[l]).Headers)

RECURSIVE FirstHeader(_, _)
FirstHeader(prio, k) ==
    IF prio = << >> THEN Nil
    ELSE IF HasHeader(Head(prio), k)
         THEN Ptr(Deref(Deref(layers[Head(prio)]).Headers)[k])
         ELSE FirstHeader(Tail(prio), k)

\* the resolved options give every option the value of the most specific
\* layer of prio that sets it
ResolvedByPriority(prio) ==
    LET r == Deref(resolved)
        h == Deref(r.Headers)
    IN  /\ \A f \in ScalarFields : r[f] = FirstScalar(prio, f)
        /\ \A g \in TimeoutFields : Deref(r.Timeout)[g] = FirstTimeout(prio, g)
        /\ \A k \in HeaderKeys :
              IF k \in DOMAIN h THEN FirstHeader(prio, k) = Ptr(h[k])
              ELSE FirstHeader(prio, k) = Nil

\* C2: a command resolves its options from defaults, client, database,
\* resource, call, in this order, so the call overrides the resource, which
\* overrides the database, which overrides the client, which overrides the
\* default; an Admin handle resolves defaults, client, admin.
C2_ResolveOrder ==
    /\ caller = "command" =>
          /\ mergeArgs = <<ClientLayer, DbLayer, ResourceLayer, CommandLayer>>
          /\ ResolvedByPriority(<<CommandLayer, ResourceLayer, DbLayer, ClientLayer>>)
    /\ caller = "admin" =>
          /\ mergeArgs = <<ClientLayer, AdminLayer>>
          /\ ResolvedByPriority(<<AdminLayer, ClientLayer>>)

\* a command resolved a keyspace set on both the database and the resource
\* to the resource's value
C2_Witness ==
    /\ caller = "command"
    /\ layers[DbLayer] # Nil
    /\ layers[ResourceLayer] # Nil
    /\ Deref(layers[DbLayer]).Keyspace = Ptr(StrVal(DbLayer))
    /\ Deref(layers[ResourceLayer]).Keyspace = Ptr(StrVal(ResourceLayer))
    /\ Deref(resolved).Keyspace = Ptr(StrVal(ResourceLayer))

\* a caller that keeps calling Next whatever it returns
KeepNext == pc = "next" /\ DoNext /\ UNCHANGED <<pc, out>>

\* All up to its page loop: the closed check, the first page, and the rest of
\* the buffer appended to allDocs (kept in out)
AllBegin ==
    /\ pc = "next"
    /\ op' = "All"
    /\ IF cur.state = CursorStateClosed
       THEN /\ ret' = Ret(FALSE, Ptr(ErrCursorClosed), << >>, FALSE)
            /\ pc' = "allDone"
            /\ UNCHANGED <<cur, fetchLog, out>>
       ELSE LET f == IF cur.initialized
                     THEN [cur |-> cur, log |-> fetchLog, err |-> Nil, panic |-> FALSE]
                     ELSE FetchPageLocked(cur, Nil, fetchLog)
                c == [f.cur EXCEPT !.initialized = TRUE]
            IN  /\ fetchLog' = f.log
                /\ IF f.panic \/ f.err # Nil
                   THEN /\ cur' = [f.cur EXCEPT !.err = f.err]
                        /\ ret' = Ret(FALSE, f.err, << >>, f.panic)
                        /\ pc' = "allDone"
                        /\ UNCHANGED out
                   ELSE /\ cur' = c
                        /\ ret' = NoRet
                        /\ pc' = "allLoop"
                        /\ out' = IF c.position < 0 THEN c.buffer
                                  ELSE IF c.position + 1 < Len(c.buffer)
                                  THEN SubSeq(c.buffer, c.position + 2, Len(c.buffer))
                                  ELSE << >>
    /\ UNCHANGED <<handed, ctor, sizes, lastTok, fails, optVars, cmdVars, thrVars>>

\* one iteration of All's page loop
AllPage ==
    /\ pc = "allLoop"
    /\ HasToken(cur.nextPageState)
    /\ LET f == FetchPageLocked(cur, cur.nextPageState, fetchLog)
       IN  /\ fetchLog' = f.log
           /\ IF f.panic \/ f.err # Nil
              THEN /\ cur' = [f.cur EXCEPT !.err = f.err]
                   /\ ret' = Ret(FALSE, f.err, << >>, f.panic)
                   /\ pc' = "allDone"
                   /\ UNCHANGED out
              ELSE /\ cur' = f.cur
                   /\ out' = out \o f.cur.buffer
                   /\ UNCHANGED <<ret, pc>>
    /\ UNCHANGED <<handed, op, ctor, sizes, lastTok, fails, optVars, cmdVars, thrVars>>

\* All after its page loop: the cursor is Exhausted and allDocs is decoded
AllEnd ==
    /\ pc = "allLoop"
    /\ ~HasToken(cur.nextPageState)
    /\ cur' = [cur EXCEPT !.state = CursorStateExhausted]
    /\ \E good \in BOOLEAN :
         ret' = IF good THEN Ret(TRUE, Nil, out, FALSE)
                ELSE Ret(FALSE, Ptr(ErrUnmarshal), << >>, FALSE)
    /\ pc' = "allDone"
    /\ UNCHANGED <<fetchLog, handed, op, out, ctor, sizes, lastTok, fails,
                   optVars, cmdVars, thrVars>>

\* cursors over a fetcher that never fails
InitNeverFails ==
    /\ InitOptions
    /\ InitCursor("next")
    /\ ctor # "NewWithError"
    /\ fails = {}
    /\ IdleCommand

NextNeverFails == KeepNext \/ AllBegin \/ AllPage \/ AllEnd

\* the caller keeps calling Next while it is in its loop, and the code of
\* All keeps running once All has been entered
SpecNeverFails ==
    /\ InitNeverFails
    /\ [][NextNeverFails]_vars
    /\ WF_vars(KeepNext)
    /\ WF_vars(AllPage)
    /\ WF_vars(AllEnd)

(***************************************************************************)
(* Claims about the cursor                                                 *)
(***************************************************************************)
RECURSIVE DocsFrom(_)
DocsFrom(p) == IF p > Len(sizes) THEN << >> ELSE PageDocs(p) \o DocsFrom(p + 1)

\* every document of every page, in page order and in-page order
AllItems == DocsFrom(1)

IsPrefix(a, b) == Len(a) <= Len(b) /\ SubSeq(b, 1, Len(a)) = a

\* the page states of one pass over the whole chain: none, then one per page
ChainFetches == [p \in 1..Len(sizes) |-> IF p = 1 THEN Nil ELSE Ptr(p)]

\* a fresh cursor over a never-failing chain of non-empty pages that ends
\* with an absent next-page state
FreshOverFullPages ==
    /\ ctor = "New"
    /\ fails = {}
    /\ \A p \in 1..Len(sizes) : sizes[p] > 0
    /\ lastTok = Nil

\* C3: looping Next then Decode on a fresh cursor over a never-failing chain
\* of non-empty pages yields every document of every page exactly once, in
\* page order and in-page order; then Next returns false and Err() is nil.
C3_LoopYieldsEveryItem ==
    FreshOverFullPages =>
        /\ IsPrefix(out, AllItems)
        /\ pc = "done" =>
              /\ out = AllItems
              /\ op = "Next" /\ ~ret.ok
              /\ Err(cur) = Nil

\* the loop has ended after decoding three documents spread over two pages
C3_Witness ==
    /\ FreshOverFullPages
    /\ pc = "done"
    /\ Len(sizes) = 2
    /\ Len(out) = 3

\* C4: iterating a fresh cursor to exhaustion over a never-failing chain of
\* P non-empty pages invokes the fetcher exactly P times, first without a
\* page state and then with each returned page state in order, and no
\* further Next after exhaustion invokes it again.
C4_OneFetchPerPage ==
    FreshOverFullPages =>
        /\ IsPrefix(fetchLog, ChainFetches)
        /\ pc \in {"done", "after"} => fetchLog = ChainFetches

\* Next was called again after a three-page chain was exhausted
C4_Witness ==
    /\ FreshOverFullPages
    /\ pc = "after"
    /\ Len(sizes) = 3
    /\ Len(fetchLog) = 3

ClosedStaysClosed ==
    cur.state = CursorStateClosed =>
        /\ cur'.state = CursorStateClosed
        /\ fetchLog' = fetchLog
        /\ op' = "Close" => ret'.err = Nil
        /\ op' = "Next" => ~ret'.ok /\ Err(cur') = Ptr(ErrCursorClosed)
        /\ op' \in {"Decode", "All"} => ret'.err = Ptr(ErrCursorClosed)
        /\ op' = "State" => ret'.val = <<CursorStateClosed>>

\* C5: once Close has been called the cursor stays Closed whatever is called
\* next; a later Close returns nil, a later Next returns false and leaves
\* Err() at the closed error, a later Decode or All returns the closed
\* error, and the fetcher is not invoked.
C5_ClosedAbsorbing == [][ClosedStaysClosed]_vars

\* All was called on a cursor that was closed after it had fetched a page
C5_Witness ==
    /\ cur.state = CursorStateClosed
    /\ op = "All"
    /\ ret.err = Ptr(ErrCursorClosed)
    /\ fetchLog # << >>

\* the documents Next has not handed out yet
NotYetHandedOut == SubSeq(AllItems, Len(handed) + 1, Len(AllItems))

AllReturnsTheRest ==
    (op' = "All" /\ cur.state # CursorStateClosed /\ ret'.err = Nil) =>
        /\ ~ret'.panic
        /\ ret'.val = NotYetHandedOut
        /\ cur'.state = CursorStateExhausted

\* C6: an All that returns no error on a non-closed cursor returns exactly
\* the documents Next has not handed out yet, in order (none, as an empty
\* sequence, when none remain), and leaves the cursor Exhausted.
C6_AllReturnsRemaining == [][AllReturnsTheRest]_vars

Rank(st) ==
    CASE st = CursorStateIdle -> 0
      [] st = CursorStateActive -> 1
      [] st = CursorStateExhausted -> 2
      [] OTHER -> 3

StateMovesForward ==
    /\ Rank(cur'.state) >= Rank(cur.state)
    /\ (cur.state = CursorStateExhausted /\ op' = "Next") =>
          /\ ~ret'.ok
          /\ fetchLog' = fetchLog

\* C7: the state only moves forward along Idle, Active, Exhausted, Closed;
\* an Exhausted cursor never becomes Active or Idle again, and Next on it
\* returns false without invoking the fetcher.
C7_StateMonotonic == [][StateMovesForward]_vars

\* Next was called on a cursor that All had exhausted with a page still buffered
C7_Witness ==
    /\ cur.state = CursorStateExhausted
    /\ op = "Next"
    /\ ~ret.ok
    /\ RemainingBatchLength(cur) > 0

\* C8: in every Exhausted state HasNextPage() is false and
\* RemainingBatchLength() is 0.
C8_ExhaustedHasNothingLeft ==
    State(cur) = CursorStateExhausted =>
        /\ ~HasNextPage(cur)
        /\ RemainingBatchLength(cur) = 0

\* C9: while the cursor is not Closed, whichever constructor built it, the
\* position lies between -1 and len(buffer)-1.
C9_PositionInRange ==
    cur.state # CursorStateClosed =>
        /\ -1 <= cur.position
        /\ cur.position <= Len(cur.buffer) - 1

DecodeOnlyReads ==
    op' = "Decode" =>
        /\ cur' = cur
        /\ fetchLog' = fetchLog
        /\ cur.state = CursorStateClosed => ret'.err = Ptr(ErrCursorClosed)
        /\ (cur.state # CursorStateClosed /\ Current(cur) = Nil) =>
              ret'.err = Ptr(ErrNoCurrentDocument)

\* C10: Decode on a closed cursor returns the closed error; on a non-closed
\* cursor whose position indexes no buffered document it returns the
\* no-current-document error; it never changes the cursor.
C10_DecodeErrors == [][DecodeOnlyReads]_vars

\* Decode was called on a cursor closed while a document was current, and
\* returned the closed error
C10_Witness ==
    /\ op = "Decode"
    /\ cur.state = CursorStateClosed
    /\ cur.position >= 0
    /\ ret.err = Ptr(ErrCursorClosed)

\* C11: a cursor built by NewWithError(e) starts Exhausted with Err() = e,
\* Next on it always returns false, and no sequence of Next, Decode, All or
\* Close on it ever attempts a page fetch: the fetcher field is nil, so an
\* attempt shows as a panic.
C11_BornFailedNeverFetches ==
    ctor = "NewWithError" =>
        /\ op = "none" =>
              /\ State(cur) = CursorStateExhausted
              /\ Err(cur) = Ptr(ErrInvalid)
        /\ op = "Next" => ~ret.ok
        /\ fetchLog = << >>
        /\ ~ret.panic

\* C12: a cursor built by NewWithInitialData(docs, token, fetcher) skips the
\* first fetch: the fetcher is never invoked without a page state, Next
\* hands out the seeded documents first without any fetch and only then
\* fetches, with the seeded page state; the cursor starts Exhausted exactly
\* when docs is empty and the page state is absent or empty.
C12_SeededSkipsFirstFetch ==
    ctor = "NewWithInitialData" =>
        /\ \A i \in 1..Len(fetchLog) : fetchLog[i] # Nil
        /\ IsPrefix(handed, AllItems)
        /\ fetchLog # << >> =>
              /\ Len(handed) >= sizes[1]
              /\ fetchLog[1] = TokenAfter(1)
        /\ op = "none" =>
              (State(cur) = CursorStateExhausted
                  <=> (sizes[1] = 0 /\ ~HasToken(TokenAfter(1))))

\* the two seeded documents were handed out, then the second page was
\* fetched with the seeded page state and its document handed out
C12_Witness ==
    /\ ctor = "NewWithInitialData"
    /\ sizes = <<2, 1>>
    /\ Len(handed) = 3
    /\ fetchLog = <<Ptr(2)>>

\* what Iterate does up to its return: the callback has received exactly
\* the documents Next made current, in order; the stop signal makes Iterate
\* return nil, another callback error makes it return that error, and when
\* Next returns false Iterate returns Err()
IterateCallsAndReturns ==
    /\ pc' # "callback" => out' = handed'
    /\ pc' = "callback" => handed' = out' \o Current(cur')
    /\ IsPrefix(out', AllItems)
    /\ pc' = "stopped" => op' = "Iterate" /\ ret'.err = Nil
    /\ pc' = "aborted" => op' = "Iterate" /\ ret'.err = Ptr(ErrCallback)
    /\ pc' = "ended" => op' = "Iterate" /\ ret'.err = Err(cur')

CallbackErrorReported ==
    /\ IterateCallsAndReturns
    /\ (pc = "aborted" /\ op' = "Err") => ret'.val = <<Ptr(ErrCallback)>>

CallbackErrorOnlyReturned ==
    /\ IterateCallsAndReturns
    /\ (pc = "aborted" /\ op' = "Err") => ret'.val = <<Nil>>
    /\ pc = "callback" => cur' = cur

HeaderArgs(k) == {i \in 1..Len(mergeArgs) : HasHeader(mergeArgs[i], k)}

\* C19: the header map produced by Merge is the union of the header maps of
\* all layers: every key of any layer is in the result, a key of several
\* layers takes the value of the latest layer that has it, and a key of
\* earlier layers only keeps its value.
C19_MergedHeadersAreUnion ==
    resolved # Nil =>
        LET h == Deref(Deref(resolved).Headers)
        IN  /\ DOMAIN h = {k \in HeaderKeys : HeaderArgs(k) # {}}
            /\ \A k \in DOMAIN h :
                  h[k] = Deref(Deref(layers[mergeArgs[Max(HeaderArgs(k))]]).Headers)[k]

\* a command merged header "a" of the client with header "b" of the resource
C19_Witness ==
    /\ caller = "command"
    /\ HeaderArgs("a") = {1}
    /\ HeaderArgs("b") = {3}
    /\ resolved # Nil
    /\ Deref(Deref(resolved).Headers) =
          [k \in HeaderKeys |-> IF k = "a" THEN StrVal(ClientLayer)
                                ELSE StrVal(ResourceLayer)]

(***************************************************************************)
(* Claims about the command                                                *)
(***************************************************************************)
\* the last call handed the response to ExtractErrors: a direct call, or an
\* Execute that got a response from the HTTP client
Classified ==
    \/ cmdOp = "ExtractErrors"
    \/ cmdOp = "Execute" /\ httpLog # << >> /\ response.kind = "response"

\* the message, errors and warnings fields a JSON body carries
MessageIn(b) == IF b.json /\ b.message # Nil THEN Deref(b.message) ELSE EmptyString
ErrorsIn(b) == IF b.json /\ b.errors # Nil THEN Deref(b.errors) ELSE << >>
WarningsIn(b) == IF b.json /\ b.warnings # Nil THEN Deref(b.warnings) ELSE << >>

\* C14: ExtractErrors with a status of 400 or more always returns a non-nil
\* error; its message is the body's message field when the body parses with
\* a non-empty message, else the raw body text; no errors array and no
\* warnings are extracted, even when the body contains them.
C14_StatusErrorBranch ==
    (Classified /\ response.status >= 400) =>
        /\ cmdRet.err # Nil
        /\ cmdRet.err = IF MessageIn(response.body) # EmptyString
                        THEN Ptr(ErrorsNew(MessageIn(response.body)))
                        ELSE Ptr(ErrorsNew(String(response.body)))
        /\ Unwrap(Deref(cmdRet.err)) = << >>
        /\ cmdRet.warnings = << >>

\* ExtractErrors(503, body) returned the message of a body that also
\* carries two errors and two warnings
C14_Witness ==
    /\ cmdOp = "ExtractErrors"
    /\ response.status = 503
    /\ response.body.json
    /\ Len(ErrorsIn(response.body)) = 2
    /\ Len(WarningsIn(response.body)) = 2
    /\ cmdRet.err = Ptr(ErrorsNew(<<"resuming">>))

\* C15: ExtractErrors with a status below 400 and a body whose errors array
\* has n >= 1 entries returns a non-nil combined error that exposes exactly
\* those n entries in order, each with its error code; with an absent or
\* empty errors array it returns a nil error.
C15_ErrorsArrayBranch ==
    (Classified /\ response.status < 400) =>
        LET entries == ErrorsIn(response.body)
        IN  IF Len(entries) >= 1
            THEN /\ cmdRet.err # Nil
                 /\ Len(Unwrap(Deref(cmdRet.err))) = Len(entries)
                 /\ \A i \in 1..Len(entries) :
                       /\ Unwrap(Deref(cmdRet.err))[i] = entries[i]
                       /\ Unwrap(Deref(cmdRet.err))[i].errorCode = entries[i].errorCode
            ELSE cmdRet.err = Nil

\* Execute got status 200 with two errors and returned them in their order
C15_Witness ==
    /\ cmdOp = "Execute"
    /\ httpLog # << >>
    /\ response.kind = "response"
    /\ response.status = 200
    /\ ErrorsIn(response.body) = <<Entry(2), Entry(1)>>
    /\ cmdRet.err = Ptr(DataAPIErrorsOf(<<Entry(2), Entry(1)>>))

NoRequestWithoutEndpoint ==
    (cmd.db = Nil \/ Deref(cmd.db).endpoint = "") =>
        /\ httpLog = << >>
        /\ cmdOp = "Execute" => cmdRet.err # Nil

RECURSIVE Depth(_, _)
Depth(t, n) ==
    IF n = 0 THEN 0
    ELSE Depth(t, n - 1) + (IF t[n] = "{" THEN 1 ELSE IF t[n] = "}" THEN -1 ELSE 0)

\* the positions of the keys of the JSON object t
KeyPositions(t) == {i \in 1..(Len(t) - 1) : t[i + 1] = ":" /\ Depth(t, i) = 1}

\* C18: a command serializes to a JSON object with exactly one key, the
\* command name, whose value is the payload, whenever the name is
\* non-empty; with an empty name it serializes to the bare payload.
C18_WireShape ==
    (cmdOp = "MarshalJSON" /\ cmdRet.err = Nil) =>
        LET t == Deref(cmdRet.bytes)
            payload == MarshalPayload(cmd.payload).bytes
        IN  IF cmd.name # ""
            THEN /\ Head(t) = "{" /\ t[Len(t)] = "}"
                 /\ KeyPositions(t) = {2}
                 /\ t[2] = cmd.name
                 /\ SubSeq(t, 4, Len(t) - 1) = payload
            ELSE t = payload

\* the dropIndex command of the documentation was serialized
C18_Witness ==
    /\ cmdOp = "MarshalJSON"
    /\ cmd.name = "dropIndex"
    /\ cmdRet.bytes = Ptr(<<"{", "dropIndex", ":", "{", "name", ":", "rating", "}", "}">>)

(***************************************************************************)
(* Claims about threads sharing a cursor                                   *)
(***************************************************************************)
\* the buffer is empty or exactly one page of the fetcher
BufferIsOnePage ==
    \/ cur.buffer = << >>
    \/ \E p \in 1..Len(sizes) : cur.buffer = PageDocs(p)

\* C20: with several threads calling Next, Decode, All, Close and the
\* accessors on one cursor in any interleaving, every operation, the page
\* fetch inside Next or All included, runs under the cursor lock: at most
\* one thread is inside a method and at most one fetch is in flight, and
\* the cursor a thread finds is consistent: its buffer is empty or exactly
\* one fetched page and, unless it is Closed, its position lies within the
\* buffer (between -1 and len(buffer)-1).
C20_AtomicUnderLock ==
    /\ \A t \in Threads : tpc[t] # "idle" => mu = Ptr(t)
    /\ Cardinality(inFlight) <= 1
    /\ mu # Nil =>
          /\ BufferIsOnePage
          /\ cur.state # CursorStateClosed =>
                /\ -1 <= cur.position
                /\ cur.position <= Len(cur.buffer) - 1

(***************************************************************************)
(* Claims about failing fetches                                            *)
(***************************************************************************)
\* this step is a Next whose last fetcher invocation failed
NextFetchFailed ==
    /\ op' = "Next"
    /\ fetchLog' # fetchLog
    /\ Len(fetchLog') \in fails

\* after the failure Next returned false, Err() is the fetch error, and a
\* later Next invokes the fetcher again with the page state that failed
FailedNextReported ==
    /\ ~ret'.ok
    /\ Err(cur') = Ptr(FetchErr(Len(fetchLog')))
    /\ LET again == CursorNext(cur', fetchLog').log
       IN  /\ Len(again) > Len(fetchLog')
           /\ again[Len(fetchLog') + 1] = fetchLog'[Len(fetchLog')]

FailedNextKeepsCursor ==
    NextFetchFailed =>
        /\ FailedNextReported
        /\ cur'.buffer = cur.buffer
        /\ cur'.position = cur.position
        /\ cur'.nextPageState = cur.nextPageState

\* C22: when the page fetch made inside Next fails, Next returns false,
\* Err() afterwards returns exactly the fetch error, and buffer, position
\* and next-page token are the same as before the call, so that a later
\* Next attempts the same page again.
C22_FailedNextFrame == [][FailedNextKeepsCursor]_vars

FailedNextKeepsLastFetch ==
    NextFetchFailed =>
        /\ FailedNextReported
        /\ LET before == IF Len(fetchLog') = Len(fetchLog) + 1 THEN cur
                         ELSE FetchPageLocked(cur, Nil, fetchLog).cur
           IN  /\ cur'.buffer = before.buffer
               /\ cur'.position = before.position
               /\ cur'.nextPageState = before.nextPageState

\* C22, amended: as C22, but buffer, position and next-page token are those
\* the failed fetch found: the same as before the call, unless the call
\* first fetched an empty first page, and then those of that first page.
C22_FailedNextKeepsLastFetch == [][FailedNextKeepsLastFetch]_vars

\* the fetch of the second page failed in the third Next: the cursor still
\* stands on the last document of the first page
C22_Witness ==
    /\ op = "Next"
    /\ ~ret.ok
    /\ fetchLog = <<Nil, Ptr(2)>>
    /\ Err(cur) = Ptr(FetchErr(2))
    /\ cur.position = 1
    /\ cur.buffer = PageDocs(1)

AllFetchFailed ==
    /\ op' = "All"
    /\ fetchLog' # fetchLog
    /\ Len(fetchLog') \in fails

FailedAllReported ==
    /\ ret'.err = Ptr(FetchErr(Len(fetchLog')))
    /\ Err(cur') = Ptr(FetchErr(Len(fetchLog')))
    /\ State(cur') = State(cur)

\* the fetcher invocations among those numbered from..to that succeeded
Succeeded(from, to) == {k \in from..to : k \notin fails}

\* the page asked for by invocation k
PageOf(log, k) == IF log[k] = Nil THEN 1 ELSE Deref(log[k])

HoldsPage(c, p) ==
    /\ c.buffer = PageDocs(p)
    /\ c.position = -1
    /\ c.nextPageState = TokenAfter(p)

FailedAllKeepsLastFetched ==
    AllFetchFailed =>
        /\ FailedAllReported
        /\ LET good == Succeeded(1, Len(fetchLog'))
           IN  good # {} => HoldsPage(cur', PageOf(fetchLog', Max(good)))

FailedAllKeepsWhatItFound ==
    AllFetchFailed =>
        /\ FailedAllReported
        /\ LET good == Succeeded(Len(fetchLog) + 1, Len(fetchLog'))
           IN  IF good # {}
               THEN HoldsPage(cur', PageOf(fetchLog', Max(good)))
               ELSE /\ cur'.buffer = cur.buffer
                    /\ cur'.position = cur.position
                    /\ cur'.nextPageState = cur.nextPageState

FetchedPageReplacesBuffer ==
    LET good == Succeeded(Len(fetchLog) + 1, Len(fetchLog'))
    IN  good # {} =>
            LET p == PageOf(fetchLog', Max(good))
            IN  /\ cur'.buffer = PageDocs(p)
                /\ cur'.nextPageState = TokenAfter(p)

\* C24: after every successful page fetch the buffer equals exactly the
\* documents of the page just fetched, never a concatenation with an earlier
\* page, and the next-page token equals the token returned with that page.
C24_FetchedPageReplacesBuffer == [][FetchedPageReplacesBuffer]_vars

\* the second page was fetched over a first page that was not empty
C24_Witness ==
    /\ fetchLog = <<Nil, Ptr(2)>>
    /\ fails = {}
    /\ sizes[1] > 0
    /\ cur.buffer = PageDocs(2)
    /\ Len(cur.buffer) > 0
    /\ cur.nextPageState = TokenAfter(2)

(* Claims about the captured error *)
ErrStays == Err(cur) # Nil => Err(cur') # Nil

\* C28: the captured cursor error is never cleared: once Err() returns a
\* non-nil error it returns a non-nil error after every subsequent operation,
\* including a later Next that succeeds after a retried fetch and a later All
\* that succeeds.
C28_ErrNeverCleared == [][ErrStays]_vars

\* the first fetch failed, a later Next succeeded on the retried fetch, then
\* All succeeded, and the error of the failed fetch is still reported
C28_Witness ==
    /\ op = "All"
    /\ ret.ok
    /\ ret.err = Nil
    /\ fails = {1}
    /\ Len(fetchLog) >= 2
    /\ fetchLog[2] = Nil
    /\ Len(handed) > 0
    /\ State(cur) = CursorStateExhausted
    /\ Err(cur) = Ptr(FetchErr(1))

(* Claims about the current document *)
NoCurrentDocument(c) ==
    /\ CursorDecode(c, TRUE).err = Ptr(ErrNoCurrentDocument)
    /\ Current(c) = Nil

\* C29: on a non-closed cursor, after a Next call that returned false
\* (exhaustion or fetch error) and after All, Decode returns the
\* no-current-document error and Current returns nil.
C29_NoItemAfterFalseNext ==
    (/\ State(cur) # CursorStateClosed
     /\ ~ret.panic
     /\ \/ op = "Next" /\ ~ret.ok
        \/ op = "All")
        => NoCurrentDocument(cur)

(* Claims about All and the Next loop *)
\* C27: for every fetcher that never fails and has a finite page chain
\* (pages may be empty), All on a fresh cursor produces exactly the item
\* sequence of looping Next and Current to exhaustion on an identical fresh
\* cursor, and both leave the cursor Exhausted.
C27_AllEqualsNextLoop ==
    (pc = "done" /\ ctor = "New" /\ fails = {}) =>
        LET all == CursorAll(New, << >>, TRUE)
        IN  /\ out = all.docs
            /\ State(cur) = CursorStateExhausted
            /\ State(all.cur) = CursorStateExhausted

(* Claims about termination *)
NextSaidNoMore == op = "Next" /\ ~ret.ok /\ State(cur) = CursorStateExhausted

AllReturned == pc = "allDone" /\ State(cur) = CursorStateExhausted

\* C30: for any fetcher that never fails and whose page chain is finite, a
\* caller that keeps calling Next eventually gets false with the cursor
\* Exhausted, and an All call on such a cursor terminates.
C30_NextAndAllTerminate ==
    /\ <>(pc # "next" \/ NextSaidNoMore)
    /\ (pc = "allLoop") ~> AllReturned

\* All returned after a page loop of two fetches
C30_Witness ==
    /\ AllReturned
    /\ ret.ok
    /\ Len(fetchLog) = 3
    /\ Len(handed) = 1
    /\ Len(out) > 1

(* Claims about retries *)
ExecuteSendsOnce ==
    cmdOp' = "Execute" =>
        /\ Len(httpLog') <= Len(httpLog) + 1
        /\ (httpLog' # httpLog /\ response.kind = "doError" =>
                /\ cmdRet'.err = Ptr(ErrTransport)
                /\ Len(httpLog') = Len(httpLog) + 1)

FailedFetchIsLast ==
    op' \in {"Next", "All"} =>
        \A k \in (Len(fetchLog) + 1)..(Len(fetchLog') - 1) : k \notin fails

\* C26: nothing is retried: one Execute call issues at most one HTTP request
\* and returns a transport error unchanged, and a Next or All call that hits
\* a fetch error invokes the fetcher no further within that call.
C26_NothingRetried == [][ExecuteSendsOnce /\ FailedFetchIsLast]_vars

\* the HTTP client failed: one request was sent and its error came back
C26_Witness ==
    /\ cmdOp = "Execute"
    /\ response.kind = "doError"
    /\ Len(httpLog) = 1
    /\ cmdRet.err = Ptr(ErrTransport)

NextMovesToNewItem ==
    handed' # handed =>
        \A k \in 1..Len(handed) : handed[k] # handed'[Len(handed')]

DecodeGivesLatestItem ==
    out' # out =>
        /\ Len(handed) > 0
        /\ out'[Len(out')][2] = handed[Len(handed)]

HeadersOfLayer(l, heap) == heap[Deref(Deref(layers[l]).Headers)]

HeadersOfResult(heap) == heap[Deref(Deref(resolved).Headers)]

HasHeaders(l) == layers[l] # Nil /\ Deref(layers[l]).Headers # Nil

\* a Merge call leaves every layer, every map and every struct it was handed
\* as it was, and returns a header map that is none of theirs
MergeLeavesInputs ==
    resolved = Nil /\ resolved' # Nil =>
        /\ layers' = layers
        /\ \A a \in 1..Len(maps) : maps'[a] = maps[a]
        /\ \A l \in Layers :
              HasHeaders(l) => Deref(resolved').Headers # Deref(layers[l]).Headers

\* after Merge, setting a header changes a layer's headers or the result's
\* headers, never both
HeadersSetApart ==
    resolved # Nil /\ resolved' = resolved =>
        \A l \in Layers :
            HasHeaders(l) =>
                \/ HeadersOfLayer(l, maps') = HeadersOfLayer(l, maps)
                \/ HeadersOfResult(maps') = HeadersOfResult(maps)

\* C25: Merge never modifies any of its input layers, and its result does
\* not share a header map with any input: adding or changing a header in an
\* input layer after Merge has returned does not change the result, and
\* changing the result's headers does not change any input layer.
C25_MergeSharesNoMap == [][MergeLeavesInputs /\ HeadersSetApart]_vars

\* the client layer's header "a" was merged, then changed on the layer, and
\* the result still has the merged value
C25_Witness ==
    /\ resolved # Nil
    /\ mergeArgs = <<ClientLayer>>
    /\ HasHeaders(ClientLayer)
    /\ "a" \in DOMAIN HeadersOfResult(maps)
    /\ HeadersOfResult(maps)["a"] = StrVal(ClientLayer)
    /\ HeadersOfLayer(ClientLayer, maps)["a"] = LaterVal(0)

====
